---------------------------- MODULE Spec2Model ----------------------------
(***************************************************************************)
(* Model of src/full_app.py: a six-stage Streamlit pipeline that turns a   *)
(* table of per-asset fundamentals into portfolio weights                  *)
(* (cleaning -> normalization -> composite score -> selection -> returns   *)
(* analysis -> constrained optimization).                                  *)
(*                                                                         *)
(* Representation.                                                         *)
(*   - A cell of a table is <<>> when the value is missing (NaN / None)    *)
(*     and <<v>> otherwise, v being a string or a rational number.         *)
(*   - A table (pandas DataFrame) is a record                              *)
(*       [columns |-> sequence of column names,                            *)
(*        numeric |-> set of the columns whose dtype is numeric,           *)
(*        rows    |-> sequence of rows, a row being a function from the    *)
(*                    column names to cells].                              *)
(*   - A Python reference that may be None is None == <<>> or <<object>>.  *)
(***************************************************************************)
EXTENDS Integers, Sequences, FiniteSets, TLC

VARIABLES
    session_state,  \* st.session_state: a dict from the keys of initialize_session_state to values
    page,           \* what the last script run did and rendered (handler, outcome, results shown)
    args,           \* argument of the pure function under analysis (clean_data: df)
    ret             \* its return value, NotCalled until the function has been applied

vars == <<session_state, page, args, ret>>

None == <<>>
Some(v) == <<v>>
NotCalled == <<>>

(***************************************************************************)
(* Exact rational numbers <<n, d>> (d > 0, lowest terms) stand for the     *)
(* floats of the table values, composite scores, ranks and percentiles.     *)
(***************************************************************************)
RECURSIVE GCD(_, _)
GCD(a, b) == IF b = 0 THEN a ELSE GCD(b, a % b)

Abs(a) == IF a < 0 THEN -a ELSE a

Rat(n, d) ==
    LET g == GCD(Abs(n), Abs(d))
        sgn == IF d < 0 THEN -1 ELSE 1
    IN <<(sgn * n) \div g, (sgn * d) \div g>>

RatInt(v) == <<v, 1>>
RatAdd(a, b) == Rat(a[1] * b[2] + b[1] * a[2], a[2] * b[2])
RatSub(a, b) == Rat(a[1] * b[2] - b[1] * a[2], a[2] * b[2])
RatMul(a, b) == Rat(a[1] * b[1], a[2] * b[2])
RatDiv(a, b) == Rat(a[1] * b[2], a[2] * b[1])
RatLess(a, b) == a[1] * b[2] < b[1] * a[2]
RatLeq(a, b) == a[1] * b[2] <= b[1] * a[2]

RECURSIVE RatSum(_)
RatSum(s) == IF s = <<>> THEN RatInt(0) ELSE RatAdd(Head(s), RatSum(Tail(s)))

\* the minimum and the maximum of a non-empty sequence of rationals
MinOf(s) == CHOOSE m \in {s[i] : i \in DOMAIN s} : \A i \in DOMAIN s : RatLeq(m, s[i])
MaxOf(s) == CHOOSE m \in {s[i] : i \in DOMAIN s} : \A i \in DOMAIN s : RatLeq(s[i], m)

\* table cells: a missing value, and the number v
NaN == <<>>
Num(v) == <<RatInt(v)>>

(***************************************************************************)
(* Bounds of the model.                                                    *)
(***************************************************************************)
MaxRows == 3

(***************************************************************************)
(* Generic helpers over sequences and dicts.                               *)
(***************************************************************************)
Range(s) == {s[i] : i \in DOMAIN s}

\* Python dict assignment d[k] = v
DictSet(d, k, v) == [x \in (DOMAIN d) \cup {k} |-> IF x = k THEN v ELSE d[x]]

\* the empty Python dict
EmptyDict == [x \in {} |-> 0]

(***************************************************************************)
(* initialize_session_state (src/full_app.py:13-33): every key is created  *)
(* on the first script run, so every key is in the dict from then on.      *)
(***************************************************************************)
InitialSessionState ==
    [step |-> 1,
     data |-> None,
     cleaned_data |-> None,
     normalized_data |-> None,
     normalized_columns |-> None,
     normalization_completed |-> FALSE,
     weights |-> EmptyDict,
     ranked_data |-> None,
     selected_stocks |-> None,
     returns_data |-> None,
     closing_prices |-> None,
     covariance_matrix |-> None,
     trading_days_metrics |-> None]

\* no script run has rendered anything yet
NoPage == [handler |-> 0, outcome |-> "none", rerun |-> FALSE]

(***************************************************************************)
(* clean_data (src/full_app.py:86-114)                                     *)
(***************************************************************************)
preserve_columns ==
    {"Stock", "Market Capitalization", "Industry", "NSE Code", "BSE Code", "ISIN"}

\* pd.api.types.is_numeric_dtype(df[col]): the dtype is a property of the
\* column and is kept by boolean-mask row selection
is_numeric_dtype(df, col) == col \in df.numeric

\* df[col] < 0, per row (a comparison with NaN is False)
IsNegative(row, col) == row[col] # NaN /\ RatLess(row[col][1], RatInt(0))

\* df[col].isnull(), per row
IsNull(row, col) == row[col] = NaN

\* columns_to_clean = [col for col in df.columns if col not in preserve_columns]
columns_to_clean(df) == SelectSeq(df.columns, LAMBDA col : col \notin preserve_columns)

\* CleanColumn with the missing-value test left out of the row filter
CleanColumn_KeepsNull(st, col) ==
    IF is_numeric_dtype(st.df_cleaned, col)
    THEN LET rows == st.df_cleaned.rows
             neg_count == Len(SelectSeq(rows, LAMBDA r : IsNegative(r, col)))
             null_count == Len(SelectSeq(rows, LAMBDA r : IsNull(r, col)))
             r1 == IF neg_count > 0
                   THEN DictSet(st.removed_rows, <<"Negative values in", col>>, neg_count)
                   ELSE st.removed_rows
             r2 == IF null_count > 0
                   THEN DictSet(r1, <<"Missing values in", col>>, null_count)
                   ELSE r1
             kept == SelectSeq(rows, LAMBDA r : ~IsNegative(r, col))
         IN [df_cleaned |-> [st.df_cleaned EXCEPT !.rows = kept],
             removed_rows |-> r2]
    ELSE st

\* CleanColumn with the negative count taken as "<= 0" instead of "< 0"
CleanColumn_CountsZero(st, col) ==
    IF is_numeric_dtype(st.df_cleaned, col)
    THEN LET rows == st.df_cleaned.rows
             neg_count == Len(SelectSeq(rows, LAMBDA r : r[col] # NaN /\ RatLeq(r[col][1], RatInt(0))))
             null_count == Len(SelectSeq(rows, LAMBDA r : IsNull(r, col)))
             r1 == IF neg_count > 0
                   THEN DictSet(st.removed_rows, <<"Negative values in", col>>, neg_count)
                   ELSE st.removed_rows
             r2 == IF null_count > 0
                   THEN DictSet(r1, <<"Missing values in", col>>, null_count)
                   ELSE r1
             kept == SelectSeq(rows, LAMBDA r : ~IsNegative(r, col) /\ ~IsNull(r, col))
         IN [df_cleaned |-> [st.df_cleaned EXCEPT !.rows = kept],
             removed_rows |-> r2]
    ELSE st

\* CleanColumn with the missing-value count taken as the number of rows the
\* column removes (the negative rows are counted under both reasons)
CleanColumn_NullCountsRemoved(st, col) ==
    IF is_numeric_dtype(st.df_cleaned, col)
    THEN LET rows == st.df_cleaned.rows
             neg_count == Len(SelectSeq(rows, LAMBDA r : IsNegative(r, col)))
             null_count == Len(SelectSeq(rows, LAMBDA r : IsNegative(r, col) \/ IsNull(r, col)))
             r1 == IF neg_count > 0
                   THEN DictSet(st.removed_rows, <<"Negative values in", col>>, neg_count)
                   ELSE st.removed_rows
             r2 == IF null_count > 0
                   THEN DictSet(r1, <<"Missing values in", col>>, null_count)
                   ELSE r1
             kept == SelectSeq(rows, LAMBDA r : ~IsNegative(r, col) /\ ~IsNull(r, col))
         IN [df_cleaned |-> [st.df_cleaned EXCEPT !.rows = kept],
             removed_rows |-> r2]
    ELSE st

\* one iteration of the loop "for col in columns_to_clean" (lines 98-109);
\* st = [df_cleaned |-> table, removed_rows |-> dict]
CleanColumn(st, col) ==
    IF is_numeric_dtype(st.df_cleaned, col)
    THEN LET rows == st.df_cleaned.rows
             neg_count == Len(SelectSeq(rows, LAMBDA r : IsNegative(r, col)))
             null_count == Len(SelectSeq(rows, LAMBDA r : IsNull(r, col)))
             r1 == IF neg_count > 0
                   THEN DictSet(st.removed_rows, <<"Negative values in", col>>, neg_count)
                   ELSE st.removed_rows
             r2 == IF null_count > 0
                   THEN DictSet(r1, <<"Missing values in", col>>, null_count)
                   ELSE r1
             kept == SelectSeq(rows, LAMBDA r : ~IsNegative(r, col) /\ ~IsNull(r, col))
         IN [df_cleaned |-> [st.df_cleaned EXCEPT !.rows = kept],
             removed_rows |-> r2]
    ELSE st

RECURSIVE CleanLoop(_, _)
CleanLoop(st, cols) ==
    IF cols = <<>> THEN st
    ELSE CleanLoop(CleanColumn(st, Head(cols)), Tail(cols))

\* returns the pair (df_cleaned, cleaning_stats) as a record
clean_data(df) ==
    LET final == CleanLoop([df_cleaned |-> df, removed_rows |-> EmptyDict],
                           columns_to_clean(df))
        initial_rows == Len(df.rows)
        final_rows == Len(final.df_cleaned.rows)
    IN [df_cleaned |-> final.df_cleaned,
        cleaning_stats |-> [initial_rows |-> initial_rows,
                            removed_rows |-> final.removed_rows,
                            final_rows |-> final_rows,
                            total_removed |-> initial_rows - final_rows]]

(***************************************************************************)
(* Specification SpecClean: clean_data applied to every small table.       *)
(***************************************************************************)
CleanColumns == <<"Stock", "Market Capitalization", "ROE", "Debt to Equity", "Remarks">>
CleanNumeric == {"Market Capitalization", "ROE", "Debt to Equity"}

\* every row the analysis feeds to clean_data: the exempt numeric column may
\* be negative or missing, the two metric columns may be missing, negative or
\* valid, the non-numeric column may be missing
CleanInputRows ==
    { ("Stock" :> Some("S")) @@ ("Market Capitalization" :> mc) @@ ("ROE" :> roe)
        @@ ("Debt to Equity" :> de) @@ ("Remarks" :> rm) :
        mc \in {NaN, Num(-5)}, roe \in {NaN, Num(-1), Num(3)},
        de \in {NaN, Num(-2), Num(0)}, rm \in {NaN, Some("ok")} }

EmptyCleanInput == [columns |-> CleanColumns, numeric |-> CleanNumeric, rows |-> <<>>]

InitClean ==
    /\ args = EmptyCleanInput
    /\ ret = NotCalled
    /\ session_state = InitialSessionState
    /\ page = NoPage

\* the caller builds the input table row by row
AppendInputRow ==
    /\ Len(args.rows) < MaxRows
    /\ \E r \in CleanInputRows : args' = [args EXCEPT !.rows = Append(@, r)]
    /\ ret' = NotCalled
    /\ UNCHANGED <<session_state, page>>

CallCleanData ==
    /\ ret = NotCalled
    /\ ret' = Some(clean_data(args))
    /\ UNCHANGED <<args, session_state, page>>

NextClean == AppendInputRow \/ CallCleanData

SpecClean == InitClean /\ [][NextClean]_vars

(***************************************************************************)
(* Properties of clean_data, checked under SpecClean.                      *)
(***************************************************************************)
\* the specification of the cleaner, stated directly on the input table
NonExemptNumeric(df) == {c \in Range(df.columns) : c \notin preserve_columns /\ c \in df.numeric}
RowIsValid(df, r) == \A c \in NonExemptNumeric(df) : r[c] # NaN /\ r[c][1][1] >= 0

\* C9: clean_data returns exactly the input rows with a non-negative,
\* non-missing value in every non-exempt numeric column, in input order, and
\* final_rows counts them and total_removed = initial_rows - final_rows.
C9_CleanExact ==
    ret # NotCalled =>
        LET out == ret[1]
            expected == SelectSeq(args.rows, LAMBDA r : RowIsValid(args, r))
        IN /\ out.df_cleaned.rows = expected
           /\ out.df_cleaned.columns = args.columns
           /\ out.cleaning_stats.initial_rows = Len(args.rows)
           /\ out.cleaning_stats.final_rows = Len(expected)
           /\ out.cleaning_stats.total_removed = Len(args.rows) - Len(expected)

\* a run on three rows: the first is dropped for a negative metric, the second
\* for a missing value in the other metric, and the third is kept although its
\* exempt Market Capitalization is negative and its non-numeric column is missing
C9_Witness ==
    /\ ret # NotCalled
    /\ Len(args.rows) = 3
    /\ IsNegative(args.rows[1], "ROE") /\ RowIsValid(args, [args.rows[1] EXCEPT !["ROE"] = Num(3)])
    /\ IsNull(args.rows[2], "Debt to Equity") /\ args.rows[2]["ROE"] = Num(3)
    /\ args.rows[3]["Market Capitalization"] = Num(-5)
    /\ args.rows[3]["Remarks"] = NaN
    /\ ret[1].df_cleaned.rows = <<args.rows[3]>>
    /\ ret[1].cleaning_stats.final_rows = 1
    /\ ret[1].cleaning_stats.total_removed = 2

\* the count reported under a reason (a reason that was not recorded counts 0)
ReasonCount(stats, kind, c) ==
    IF <<kind, c>> \in DOMAIN stats.removed_rows THEN stats.removed_rows[<<kind, c>>] ELSE 0

\* the columns checked before column c, in the order of df.columns
CheckedBefore(df, c) ==
    {df.columns[i] : i \in {j \in DOMAIN df.columns :
        /\ df.columns[j] \in NonExemptNumeric(df)
        /\ \E k \in DOMAIN df.columns : k > j /\ df.columns[k] = c}}

\* the input rows that are still in the table when column c is checked
StillPresent(df, c) ==
    SelectSeq(df.rows, LAMBDA r : \A b \in CheckedBefore(df, c) : r[b] # NaN /\ r[b][1][1] >= 0)

\* C10 (as stated): the count of 'Negative values in c' is the number of
\* input rows negative in c and the count of 'Missing values in c' the number
\* of input rows missing in c, also for rows failing a check in another column.
C10_CountsOverInput ==
    ret # NotCalled =>
        \A c \in NonExemptNumeric(args) :
            /\ ReasonCount(ret[1].cleaning_stats, "Negative values in", c)
                   = Len(SelectSeq(args.rows, LAMBDA r : IsNegative(r, c)))
            /\ ReasonCount(ret[1].cleaning_stats, "Missing values in", c)
                   = Len(SelectSeq(args.rows, LAMBDA r : IsNull(r, c)))

\* C10 (amended): the count of 'Negative values in c' (resp. 'Missing values
\* in c') is the number of rows negative (resp. missing) in c among the input
\* rows that passed the checks of every column cleaned before c; a reason is
\* recorded only with a positive count and only for a non-exempt numeric column.
C10_CountsOverRemaining ==
    ret # NotCalled =>
        /\ \A c \in NonExemptNumeric(args) :
            /\ ReasonCount(ret[1].cleaning_stats, "Negative values in", c)
                   = Len(SelectSeq(StillPresent(args, c), LAMBDA r : IsNegative(r, c)))
            /\ ReasonCount(ret[1].cleaning_stats, "Missing values in", c)
                   = Len(SelectSeq(StillPresent(args, c), LAMBDA r : IsNull(r, c)))
        /\ \A k \in DOMAIN ret[1].cleaning_stats.removed_rows :
            /\ k[1] \in {"Negative values in", "Missing values in"}
            /\ k[2] \in NonExemptNumeric(args)
            /\ ret[1].cleaning_stats.removed_rows[k] > 0

\* clean_data has run on a table with a row that is negative in both metric
\* columns and a row that is negative only in the second one
C10_Witness ==
    /\ ret # NotCalled
    /\ \E i, j \in DOMAIN args.rows :
        /\ IsNegative(args.rows[i], "ROE") /\ IsNegative(args.rows[i], "Debt to Equity")
        /\ ~IsNegative(args.rows[j], "ROE") /\ ~IsNull(args.rows[j], "ROE")
        /\ IsNegative(args.rows[j], "Debt to Equity")
    /\ ReasonCount(ret[1].cleaning_stats, "Negative values in", "Debt to Equity") = 1

\* the sum of the values of a dict of numbers
RECURSIVE DictSum(_)
DictSum(d) ==
    IF DOMAIN d = {} THEN 0
    ELSE LET k == CHOOSE x \in DOMAIN d : TRUE
         IN d[k] + DictSum([x \in (DOMAIN d) \ {k} |-> d[x]])

\* C11: CleaningReport invariant.  For every input table, final_rows equals
\* initial_rows minus the sum of all per-reason counts of removed_rows: each
\* removed row is counted under exactly one reason.
C11_ReportInvariant ==
    ret # NotCalled =>
        ret[1].cleaning_stats.final_rows
            = ret[1].cleaning_stats.initial_rows - DictSum(ret[1].cleaning_stats.removed_rows)

\* clean_data has run on three rows: one fails the checks of both metric
\* columns, one has a missing value, one is kept; two reasons are recorded
\* with one row each
C11_Witness ==
    /\ ret # NotCalled
    /\ Len(args.rows) = 3
    /\ \E i, j \in DOMAIN args.rows :
        /\ IsNegative(args.rows[i], "ROE") /\ IsNegative(args.rows[i], "Debt to Equity")
        /\ RowIsValid(args, [args.rows[j] EXCEPT !["Debt to Equity"] = Num(0)])
        /\ IsNull(args.rows[j], "Debt to Equity")
    /\ Cardinality(DOMAIN ret[1].cleaning_stats.removed_rows) = 2
    /\ DictSum(ret[1].cleaning_stats.removed_rows) = 2
    /\ ret[1].cleaning_stats.final_rows = 1

(***************************************************************************)
(* Arithmetic.  Weights and weight limits are fixed-point numbers in       *)
(* units of 0.00001 (One stands for 1.0); reported percentages are in hundredths *)
(* of a percent (PctScale stands for 100.00 %).                            *)
(***************************************************************************)
One == 100000
PctScale == 10000

RECURSIVE SumSeq(_)
SumSeq(s) == IF s = <<>> THEN 0 ELSE Head(s) + SumSeq(Tail(s))

\* np.sum(x[idx]) for a list idx of positions
SumAt(x, idx) == SumSeq([k \in 1..Len(idx) |-> x[idx[k]]])

\* round(n / d) to the nearest integer, halves to the even neighbour (np.round)
RoundHalfEven(n, d) ==
    LET q == n \div d
        r == n % d
    IN IF 2 * r < d THEN q
       ELSE IF 2 * r > d THEN q + 1
       ELSE IF q % 2 = 0 THEN q ELSE q + 1

\* np.argmax: the first position of the maximum
ArgMax(s) == CHOOSE i \in DOMAIN s :
    /\ \A j \in DOMAIN s : s[j] <= s[i]
    /\ \A j \in DOMAIN s : j < i => s[j] < s[i]

\* Series.unique(): the distinct values in order of first appearance
RECURSIVE Unique(_)
Unique(s) ==
    IF s = <<>> THEN <<>>
    ELSE LET init == Unique(SubSeq(s, 1, Len(s) - 1))
             last == s[Len(s)]
         IN IF last \in Range(init) THEN init ELSE Append(init, last)

\* the positions of s, ascending, whose element satisfies membership in S
PositionsIn(s, S) ==
    LET F[i \in 0..Len(s)] ==
            IF i = 0 THEN <<>>
            ELSE IF s[i] \in S THEN Append(F[i - 1], i) ELSE F[i - 1]
    IN F[Len(s)]

(***************************************************************************)
(* handle_portfolio_optimization (src/full_app.py:633-992)                 *)
(***************************************************************************)
\* df[col] as the sequence of the unwrapped values of a column without missing values
ColumnValues(df, col) == [i \in DOMAIN df.rows |-> df.rows[i][col][1]]

\* selected_stocks[selected_stocks[col] == value]['Symbol'].values
SymbolsWhere(df, col, value) ==
    {df.rows[i]["Symbol"][1] : i \in {j \in DOMAIN df.rows : df.rows[j][col] = Some(value)}}

\* (value_counts() / len(selected_stocks) * 100).round(2), in hundredths of a
\* percent; .get(cap_type, 0) gives 0 for a category without rows
market_cap_dist(df, cap_type) ==
    IF df.rows = <<>> THEN 0   \* value_counts() of an empty column is empty
    ELSE RoundHalfEven(Cardinality({i \in DOMAIN df.rows :
                                      df.rows[i]["Market Cap Category"] = Some(cap_type)})
                         * PctScale, Len(df.rows))

CapTypes == <<"Large-Cap", "Mid-Cap", "Small-Cap">>

\* the values offered to the analysis for the weight-limit widgets (fractions of One)
LimitChoices == {20000, 100000}
MaxWeightChoices == {33334, 100000}

\* the values the user can enter in a market-cap widget: max_value is the
\* category's share of the selection, which is also the default value
CapChoices(df, cap_type) ==
    IF market_cap_dist(df, cap_type) > 0
    THEN {v \in LimitChoices : v <= market_cap_dist(df, cap_type) * (One \div PctScale)}
            \cup {market_cap_dist(df, cap_type) * (One \div PctScale)}
    ELSE {0}

\* a constraint dict handed to minimize().  The lambda of a group constraint
\* binds idx by value (default argument) and refers to the enclosing
\* function's variables `limits` (a dict) and `loopvar` (the loop variable),
\* which are read when the solver calls it.
EqConstraint == [type |-> "eq", idx |-> <<>>, limits |-> "", loopvar |-> ""]
GroupConstraint(idx, limits, loopvar) ==
    [type |-> "ineq", idx |-> idx, limits |-> limits, loopvar |-> loopvar]

\* GroupConstraints with the index list read when the solver calls the
\* lambda (no default argument): every constraint of a loop then sums the
\* positions of the last group of that loop
RECURSIVE GroupConstraints_LateIndex(_, _, _, _, _, _)
GroupConstraints_LateIndex(groups, df, col, columns, limits, loopvar) ==
    IF groups = <<>> THEN <<>>
    ELSE LET idx == PositionsIn(columns, SymbolsWhere(df, col, Head(groups)))
             last == PositionsIn(columns, SymbolsWhere(df, col, groups[Len(groups)]))
             rest == GroupConstraints_LateIndex(Tail(groups), df, col, columns, limits, loopvar)
         IN IF idx # <<>> THEN <<GroupConstraint(last, limits, loopvar)>> \o rest ELSE rest

\* lines 784-792 / 794-802: one constraint per group with at least one column
RECURSIVE GroupConstraints(_, _, _, _, _, _)
GroupConstraints(groups, df, col, columns, limits, loopvar) ==
    IF groups = <<>> THEN <<>>
    ELSE LET idx == PositionsIn(columns, SymbolsWhere(df, col, Head(groups)))
             rest == GroupConstraints(Tail(groups), df, col, columns, limits, loopvar)
         IN IF idx # <<>> THEN <<GroupConstraint(idx, limits, loopvar)>> \o rest ELSE rest

\* the value of a constraint function at x, called by the solver with the
\* frame (local variables) of handle_portfolio_optimization as it is after
\* both loops have ended
ConstraintFun(c, x, frame) ==
    IF c.type = "eq" THEN SumSeq(x) - One
    ELSE frame[c.limits][frame[c.loopvar]] - SumAt(x, c.idx)

\* the candidate values of one coordinate of result.x
SolverValues == {0, 10, 33333, 33334, 50000, 99990, 100000}

\* the tolerance within which SLSQP meets the equality constraint
SolverTol == 1

\* result.success: x meets the bounds and the constraints it was given
Accepts(x, max_stock_weight, constraints, frame) ==
    /\ \A i \in DOMAIN x : 0 <= x[i] /\ x[i] <= max_stock_weight
    /\ \A k \in DOMAIN constraints :
        IF constraints[k].type = "eq"
        THEN /\ ConstraintFun(constraints[k], x, frame) <= SolverTol
             /\ ConstraintFun(constraints[k], x, frame) >= -SolverTol
        ELSE ConstraintFun(constraints[k], x, frame) >= 0

\* lines 831-837: renormalise, round to two decimals, add the residual to the largest
weights_pct(x) ==
    LET rounded == [i \in DOMAIN x |-> RoundHalfEven(x[i] * PctScale, SumSeq(x))]
        am == ArgMax(rounded)
    IN [rounded EXCEPT ![am] = @ + (PctScale - SumSeq(rounded))]

\* stock_info.loc[symbol, col] (stock_info = selected_stocks.set_index('Symbol'))
StockInfo(df, symbol, col) ==
    (CHOOSE r \in Range(df.rows) : r["Symbol"] = Some(symbol))[col][1]

\* lines 840-852: one row per column of returns_data
PortfolioRows(df, columns, x) ==
    [i \in DOMAIN columns |->
        [Stock |-> StockInfo(df, columns[i], "Stock"),
         Ticker |-> columns[i],
         Weight |-> weights_pct(x)[i],
         Segment |-> StockInfo(df, columns[i], "Industry"),
         Category |-> StockInfo(df, columns[i], "Market Cap Category")]]

\* line 855: portfolio_results[portfolio_results['Weight in %'] > 0.01]
MinShownWeight == 1
\* FilterRows keeping the rows at the threshold
FilterRows_Inclusive(rows) == SelectSeq(rows, LAMBDA r : r.Weight >= MinShownWeight)
FilterRows(rows) == SelectSeq(rows, LAMBDA r : r.Weight > MinShownWeight)

\* line 856: sort_values('Weight in %', ascending=False); the order of rows of
\* equal weight is not fixed by the sort
SortedOrders(rows) ==
    IF rows = <<>> THEN {<<>>}
    ELSE {[i \in DOMAIN rows |-> rows[p[i]]] :
            p \in {q \in Permutations(DOMAIN rows) :
                    \A i, j \in DOMAIN rows : i < j => rows[q[i]].Weight >= rows[q[j]].Weight}}

\* lines 859-867
total_row == [Stock |-> "Total", Ticker |-> "", Weight |-> PctScale, Segment |-> "", Category |-> ""]

(***************************************************************************)
(* normalize_data (src/full_app.py:116-126)                                *)
(***************************************************************************)
\* MinMaxScale dividing by the maximum instead of by the range
MinMaxScale_ByMax(values) ==
    LET lo == MinOf(values)
        hi == MaxOf(values)
        range == IF hi = RatInt(0) THEN RatInt(1) ELSE hi
    IN [i \in DOMAIN values |-> RatDiv(RatSub(values[i], lo), range)]

\* MinMaxScale sending a column without spread to the middle of the range
MinMaxScale_ConstantHalf(values) ==
    LET lo == MinOf(values)
        hi == MaxOf(values)
    IN [i \in DOMAIN values |->
          IF hi = lo THEN Rat(1, 2) ELSE RatDiv(RatSub(values[i], lo), RatSub(hi, lo))]

\* MinMaxScaler().fit_transform on one column of values: (v - min) / (max - min);
\* a zero range is replaced by 1 (sklearn _handle_zeros_in_scale), which
\* sends a constant column to 0
MinMaxScale(values) ==
    LET lo == MinOf(values)
        hi == MaxOf(values)
        range == IF hi = lo THEN RatInt(1) ELSE RatSub(hi, lo)
    IN [i \in DOMAIN values |-> RatDiv(RatSub(values[i], lo), range)]

\* one iteration of the loop over columns_to_normalize (lines 121-124)
NormalizeColumn(df, column, columns_to_invert) ==
    LET raw == ColumnValues(df, column)
        signed == IF column \in columns_to_invert
                  THEN [i \in DOMAIN raw |-> RatMul(RatInt(-1), raw[i])]
                  ELSE raw
        scaled == MinMaxScale(signed)
    IN [df EXCEPT !.rows = [i \in DOMAIN df.rows |->
                               [df.rows[i] EXCEPT ![column] = Some(scaled[i])]]]

RECURSIVE normalize_data(_, _, _)
normalize_data(df, columns_to_normalize, columns_to_invert) ==
    IF columns_to_normalize = <<>> THEN df
    ELSE normalize_data(NormalizeColumn(df, Head(columns_to_normalize), columns_to_invert),
                        Tail(columns_to_normalize), columns_to_invert)

(***************************************************************************)
(* calculate_composite_score (src/full_app.py:128-133)                     *)
(***************************************************************************)
\* weights are percentages in tenths of a percent (WeightScale stands for 100 %)
WeightScale == 1000

\* calculate_composite_score with the weights divided by their sum instead
\* of by 100
calculate_composite_score_Normalized(df, columns_for_composite_score, weights) ==
    LET total == SumSeq([k \in DOMAIN columns_for_composite_score |->
                            weights[columns_for_composite_score[k]]])
    IN [i \in DOMAIN df.rows |->
          RatSum([k \in DOMAIN columns_for_composite_score |->
                    RatMul(Rat(weights[columns_for_composite_score[k]],
                               IF total = 0 THEN WeightScale ELSE total),
                           df.rows[i][columns_for_composite_score[k]][1])])]

\* weights maps a column to a percentage; weight_array / 100 is the fraction
\* weights[col] / WeightScale; the result is one score per row
calculate_composite_score(df, columns_for_composite_score, weights) ==
    [i \in DOMAIN df.rows |->
        RatSum([k \in DOMAIN columns_for_composite_score |->
                  RatMul(Rat(weights[columns_for_composite_score[k]], WeightScale),
                         df.rows[i][columns_for_composite_score[k]][1])])]

(***************************************************************************)
(* DataFrame helpers used by the stage handlers.                           *)
(***************************************************************************)
\* df[col] = values: adds the column or overwrites it, in place
SetColumn(df, col, numeric, cells) ==
    [columns |-> IF col \in Range(df.columns) THEN df.columns ELSE Append(df.columns, col),
     numeric |-> IF numeric THEN df.numeric \cup {col} ELSE df.numeric \ {col},
     rows |-> [i \in DOMAIN df.rows |->
                 [c \in (DOMAIN df.rows[i]) \cup {col} |->
                     IF c = col THEN cells[i] ELSE df.rows[i][c]]]]

\* RankDescending with method='first': rows of equal value are ranked in
\* the order in which they appear
RankDescending_First(scores) ==
    [i \in DOMAIN scores |->
        LET greater == Cardinality({j \in DOMAIN scores : RatLess(scores[i], scores[j])})
            before == Cardinality({j \in DOMAIN scores : j < i /\ scores[j] = scores[i]})
        IN RatInt(greater + before + 1)]

\* Series.rank(ascending=False), default method 'average': the mean of the
\* 1-based positions that the rows of equal value occupy in descending order
RankDescending(scores) ==
    [i \in DOMAIN scores |->
        LET greater == Cardinality({j \in DOMAIN scores : RatLess(scores[i], scores[j])})
            equal == Cardinality({j \in DOMAIN scores : scores[j] = scores[i]})
        IN Rat(2 * greater + equal + 1, 2)]

\* df.sort_values(col, ascending=False) for a column of rationals; the order
\* of rows of equal value is not fixed by the sort
SortedDescending(df, col) ==
    IF df.rows = <<>> THEN {df}
    ELSE {[df EXCEPT !.rows = [i \in DOMAIN df.rows |-> df.rows[p[i]]]] :
            p \in {q \in Permutations(DOMAIN df.rows) :
                    \A i, j \in DOMAIN df.rows :
                        i < j => RatLeq(df.rows[q[j]][col][1], df.rows[q[i]][col][1])}}

\* np.percentile(values, p, method='linear') for a non-empty sequence of rationals
Percentile(values, p) ==
    LET n == Len(values)
        \* the value at 0-based position k of the ascending order
        Sorted(k) == CHOOSE v \in Range(values) :
            /\ Cardinality({j \in DOMAIN values : RatLess(values[j], v)}) <= k
            /\ Cardinality({j \in DOMAIN values : RatLeq(values[j], v)}) > k
        lo == ((n - 1) * p) \div 100
        frac == Rat(((n - 1) * p) % 100, 100)
    IN IF lo >= n - 1 THEN Sorted(n - 1)
       ELSE RatAdd(Sorted(lo), RatMul(frac, RatSub(Sorted(lo + 1), Sorted(lo))))

\* pd.cut(cap, bins=[-inf, 29182.71, 89123.03, inf], labels=[Small, Mid, Large])
\* followed by astype(str): a missing capitalization becomes the string 'nan'
SmallCapLimitCents == 2918271
MidCapLimitCents == 8912303
MarketCapCategory(cell) ==
    IF cell = NaN THEN "nan"
    ELSE IF RatLeq(cell[1], Rat(SmallCapLimitCents, 100)) THEN "Small-Cap"
    ELSE IF RatLeq(cell[1], Rat(MidCapLimitCents, 100)) THEN "Mid-Cap"
    ELSE "Large-Cap"

(***************************************************************************)
(* The stage handlers.  One script run executes main(): the sidebar sets   *)
(* session_state.step and the handler of that step runs with the widget    *)
(* values and at most one button click of that run.  A handler is the set  *)
(* of its possible results [ss |-> session state after the run,            *)
(* page |-> what the run rendered]; page.rerun tells that the run ended in *)
(* st.rerun().                                                             *)
(***************************************************************************)
Result(ss, pg) == [ss |-> ss, page |-> pg]

\* "Proceed to ..." buttons: st.session_state.step = k; st.rerun()
Proceed(ss, k) == [ss EXCEPT !.step = k]

(***************************************************************************)
(* handle_data_import (src/full_app.py:148-211)                            *)
(***************************************************************************)
\* uploaded_file is None (no file in the uploader) or Some(table read from it)
handle_data_import(ss, uploaded_file, proceed) ==
    IF uploaded_file = None
    THEN {Result(ss, [handler |-> 1, outcome |-> "no file", rerun |-> FALSE])}
    ELSE LET cleaned == clean_data(uploaded_file[1])
         IN IF Len(cleaned.df_cleaned.rows) > 0
            THEN LET stored == [ss EXCEPT !.cleaned_data = Some(cleaned.df_cleaned)]
                 IN {Result(IF proceed THEN Proceed(stored, 2) ELSE stored,
                            [handler |-> 1, outcome |-> "cleaned", rerun |-> proceed,
                             cleaning_stats |-> cleaned.cleaning_stats])}
            ELSE {Result(ss, [handler |-> 1, outcome |-> "error: no data remains", rerun |-> FALSE,
                              cleaning_stats |-> cleaned.cleaning_stats])}

(***************************************************************************)
(* handle_normalization (src/full_app.py:213-275)                          *)
(***************************************************************************)
\* lines 222-224: the numeric columns that are not identifier columns
numeric_columns(df) ==
    SelectSeq(df.columns, LAMBDA col : col \in df.numeric /\ col \notin preserve_columns)

\* click is "none", "apply" or "proceed"
handle_normalization(ss, columns_to_normalize, columns_to_invert, click) ==
    IF ss.cleaned_data = None
    THEN {Result(ss, [handler |-> 2, outcome |-> "warning: complete the previous step", rerun |-> FALSE])}
    ELSE LET df == ss.cleaned_data[1]
             applied == columns_to_normalize # <<>> /\ click = "apply"
             stored == IF applied
                       THEN [ss EXCEPT
                               !.normalized_data =
                                   Some(normalize_data(df, columns_to_normalize, columns_to_invert)),
                               !.normalized_columns = Some(columns_to_normalize),
                               !.normalization_completed = TRUE]
                       ELSE ss
             proceeds == stored.normalization_completed /\ click = "proceed"
         IN {Result(IF proceeds THEN Proceed(stored, 3) ELSE stored,
                    [handler |-> 2,
                     outcome |-> IF columns_to_normalize = <<>> THEN "warning: select a column"
                                 ELSE IF applied THEN "normalized"
                                 ELSE "configuring",
                     rerun |-> proceeds])}

(***************************************************************************)
(* handle_composite_score (src/full_app.py:277-347)                        *)
(***************************************************************************)
\* line 309: abs(total_weight - 100) > 0.1, in tenths of a percent
WeightTolerance == 1

\* handle_composite_score with the scores assigned to df before the total
\* weight is checked
handle_composite_score_ScoresFirst(ss, weights, click) ==
    IF ~ss.normalization_completed
    THEN {Result(ss, [handler |-> 3, outcome |-> "warning: complete the previous step", rerun |-> FALSE])}
    ELSE LET df == ss.normalized_data[1]
             normalized_columns == ss.normalized_columns[1]
             total_weight == SumSeq([k \in DOMAIN normalized_columns |-> weights[normalized_columns[k]]])
             scores == calculate_composite_score(df, normalized_columns, weights)
             with_score == SetColumn(df, "Composite Score", TRUE,
                                     [i \in DOMAIN df.rows |-> Some(scores[i])])
             ranks == RankDescending(scores)
             with_rank == SetColumn(with_score, "Rank", TRUE,
                                    [i \in DOMAIN df.rows |-> Some(ranks[i])])
         IN IF Abs(total_weight - WeightScale) > WeightTolerance
            THEN {Result([ss EXCEPT !.normalized_data = Some(with_score)],
                         [handler |-> 3, outcome |-> "error: total weight", rerun |-> FALSE])}
            ELSE IF click = "calculate"
            THEN {Result([ss EXCEPT !.normalized_data = Some(with_rank),
                                    !.ranked_data = Some(df_ranked),
                                    !.weights = weights],
                         [handler |-> 3, outcome |-> "ranked", rerun |-> FALSE]) :
                     df_ranked \in SortedDescending(with_rank, "Composite Score")}
            ELSE LET proceeds == ss.ranked_data # None /\ click = "proceed"
                 IN {Result(IF proceeds THEN Proceed(ss, 4) ELSE ss,
                            [handler |-> 3, outcome |-> "configuring", rerun |-> proceeds])}

\* lines 317-322: df is the DataFrame object stored in normalized_data, so the
\* two column assignments change that object; df_ranked is a sorted copy
handle_composite_score(ss, weights, click) ==
    IF ~ss.normalization_completed
    THEN {Result(ss, [handler |-> 3, outcome |-> "warning: complete the previous step", rerun |-> FALSE])}
    ELSE LET df == ss.normalized_data[1]
             normalized_columns == ss.normalized_columns[1]
             total_weight == SumSeq([k \in DOMAIN normalized_columns |-> weights[normalized_columns[k]]])
         IN IF Abs(total_weight - WeightScale) > WeightTolerance
            THEN {Result(ss, [handler |-> 3, outcome |-> "error: total weight", rerun |-> FALSE])}
            ELSE IF click = "calculate"
            THEN LET scores == calculate_composite_score(df, normalized_columns, weights)
                     with_score == SetColumn(df, "Composite Score", TRUE,
                                             [i \in DOMAIN df.rows |-> Some(scores[i])])
                     ranks == RankDescending(scores)
                     with_rank == SetColumn(with_score, "Rank", TRUE,
                                            [i \in DOMAIN df.rows |-> Some(ranks[i])])
                 IN {Result([ss EXCEPT !.normalized_data = Some(with_rank),
                                       !.ranked_data = Some(df_ranked),
                                       !.weights = weights],
                            [handler |-> 3, outcome |-> "ranked", rerun |-> FALSE]) :
                        df_ranked \in SortedDescending(with_rank, "Composite Score")}
            ELSE LET proceeds == ss.ranked_data # None /\ click = "proceed"
                 IN {Result(IF proceeds THEN Proceed(ss, 4) ELSE ss,
                            [handler |-> 3, outcome |-> "configuring", rerun |-> proceeds])}

(***************************************************************************)
(* handle_stock_selection (src/full_app.py:349-461)                        *)
(***************************************************************************)
\* SelectStocks with the rows at the cutoff kept (>= instead of >)
SelectStocks_Inclusive(df_ranked, percentile_threshold) ==
    LET percentile_value ==
            Percentile(ColumnValues(df_ranked, "Composite Score"), percentile_threshold)
        above == [df_ranked EXCEPT !.rows =
                    SelectSeq(df_ranked.rows,
                              LAMBDA r : RatLeq(percentile_value, r["Composite Score"][1]))]
    IN SetColumn(above, "Market Cap Category", FALSE,
                 [i \in DOMAIN above.rows |->
                     Some(MarketCapCategory(above.rows[i]["Market Capitalization"]))])

\* lines 366-381: the rows above the cutoff, with their market-cap category
SelectStocks(df_ranked, percentile_threshold) ==
    LET percentile_value ==
            Percentile(ColumnValues(df_ranked, "Composite Score"), percentile_threshold)
        above == [df_ranked EXCEPT !.rows =
                    SelectSeq(df_ranked.rows,
                              LAMBDA r : RatLess(percentile_value, r["Composite Score"][1]))]
    IN SetColumn(above, "Market Cap Category", FALSE,
                 [i \in DOMAIN above.rows |->
                     Some(MarketCapCategory(above.rows[i]["Market Capitalization"]))])

handle_stock_selection(ss, percentile_threshold, proceed) ==
    IF "ranked_data" \notin DOMAIN ss
    THEN {Result(ss, [handler |-> 4, outcome |-> "warning: complete the previous step", rerun |-> FALSE])}
    ELSE IF ss.ranked_data = None
    THEN \* line 367 subscripts None: TypeError, not caught
         {Result(ss, [handler |-> 4, outcome |-> "exception", rerun |-> FALSE])}
    ELSE LET df_selected == SelectStocks(ss.ranked_data[1], percentile_threshold)
         IN {Result(IF proceed
                    THEN Proceed([ss EXCEPT !.selected_stocks = Some(df_selected)], 5)
                    ELSE ss,
                    [handler |-> 4, outcome |-> "selected", rerun |-> proceed,
                     percentile_threshold |-> percentile_threshold,
                     df_selected |-> df_selected])}

(***************************************************************************)
(* handle_returns_analysis (src/full_app.py:463-631)                       *)
(***************************************************************************)
\* lines 476-477
get_stock_symbol(row) == IF row["NSE Code"] # NaN THEN row["NSE Code"] ELSE row["BSE Code"]

\* the columns of returns_data after the loop of lines 491-502: the symbols
\* whose download returned data, in the order of the selected stocks
FetchedColumns(df, fetch) ==
    LET symbols == ColumnValues(df, "Symbol")
    IN [k \in DOMAIN PositionsIn(symbols, {y \in Range(symbols) : fetch[y] = "data"}) |->
          symbols[PositionsIn(symbols, {y \in Range(symbols) : fetch[y] = "data"})[k]]]

\* fetch maps a symbol to what yf.download does for it: "data", "empty" or "raise"
handle_returns_analysis(ss, fetch, proceed) ==
    IF "selected_stocks" \notin DOMAIN ss
    THEN {Result(ss, [handler |-> 5, outcome |-> "warning: complete the previous step", rerun |-> FALSE])}
    ELSE IF ss.selected_stocks = None
    THEN \* line 479 calls None.apply: AttributeError, not caught
         {Result(ss, [handler |-> 5, outcome |-> "exception", rerun |-> FALSE])}
    ELSE IF ss.selected_stocks[1].rows = <<>>
    THEN \* line 479: apply on an empty frame returns a frame, which cannot be
         \* assigned to one column: ValueError, not caught
         {Result(ss, [handler |-> 5, outcome |-> "exception", rerun |-> FALSE])}
    ELSE LET selected_stocks == ss.selected_stocks[1]
             \* line 479 adds the column to the stored object
             with_symbol == SetColumn(selected_stocks, "Symbol", FALSE,
                                [i \in DOMAIN selected_stocks.rows |->
                                    get_stock_symbol(selected_stocks.rows[i])])
             mutated == [ss EXCEPT !.selected_stocks = Some(with_symbol)]
             columns == FetchedColumns(with_symbol, fetch)
             warnings == {y \in Range(ColumnValues(with_symbol, "Symbol")) : fetch[y] = "raise"}
         IN IF columns = <<>>
            THEN {Result(mutated, [handler |-> 5, outcome |-> "error: no returns data", rerun |-> FALSE,
                                   warnings |-> warnings, fetch |-> fetch])}
            ELSE IF Len(columns) = 1
            THEN \* line 80: the off-diagonal correlations of a 1x1 matrix are an
                 \* empty array, whose min() raises ValueError, caught at line 629
                 {Result(mutated, [handler |-> 5, outcome |-> "error: returns analysis", rerun |-> FALSE,
                                   warnings |-> warnings, fetch |-> fetch])}
            ELSE LET stored == [mutated EXCEPT
                                  !.returns_data = Some([columns |-> columns]),
                                  !.closing_prices = Some([columns |-> columns]),
                                  !.covariance_matrix = Some([columns |-> columns]),
                                  !.trading_days_metrics = Some([columns |-> columns])]
                 IN {Result(IF proceed THEN Proceed(stored, 6) ELSE stored,
                            [handler |-> 5, outcome |-> "analysed", rerun |-> proceed,
                             warnings |-> warnings, fetch |-> fetch])}

(***************************************************************************)
(* handle_portfolio_optimization, the handler (src/full_app.py:633-992)    *)
(***************************************************************************)
\* RunOptimization with the table of the solver's last iterate shown after a
\* failed solve
RunOptimization_PartialWeights(selected_stocks, columns, params) ==
    IF "Symbol" \notin Range(selected_stocks.columns)
    THEN \* line 785: KeyError, caught at line 990
         {[handler |-> 6, outcome |-> "error", rerun |-> FALSE, params |-> params,
           message |-> "str(e)"]}
    ELSE
    LET industries == Unique(ColumnValues(selected_stocks, "Industry"))
        constraints ==
            <<EqConstraint>>
            \o GroupConstraints(industries, selected_stocks, "Industry", columns,
                                "industry_limits", "industry")
            \o GroupConstraints(CapTypes, selected_stocks, "Market Cap Category", columns,
                                "cap_limits", "cap_type")
        \* the local variables the constraint lambdas read when minimize() runs
        frame == [industry_limits |-> params.industry_limits,
                  cap_limits |-> params.cap_limits,
                  industry |-> industries[Len(industries)],
                  cap_type |-> CapTypes[Len(CapTypes)]]
        failed == [handler |-> 6, outcome |-> "Failed", rerun |-> FALSE, params |-> params,
                   columns |-> columns, constraints |-> constraints,
                   message |-> "result.message", x |-> [k \in DOMAIN columns |-> 0],
                   portfolio_results |-> <<total_row>>]
        known == \A k \in DOMAIN columns :
                    \E r \in Range(selected_stocks.rows) : r["Symbol"] = Some(columns[k])
    IN {failed} \cup
       UNION {
         IF known
         THEN {[handler |-> 6, outcome |-> "Converged", rerun |-> FALSE, params |-> params,
                columns |-> columns, constraints |-> constraints, x |-> x,
                portfolio_results |-> Append(sorted, total_row)] :
                  sorted \in SortedOrders(FilterRows(PortfolioRows(selected_stocks, columns, x)))}
         ELSE \* lines 841-845: stock_info.loc raises KeyError, caught at line 990
              {[handler |-> 6, outcome |-> "error", rerun |-> FALSE, params |-> params,
                message |-> "str(e)"]}
         : x \in {y \in [DOMAIN columns -> SolverValues] :
                    Accepts(y, params.max_stock_weight, constraints, frame)} }

\* lines 772-992, "Run Portfolio Optimization" clicked: the possible pages.
\* params = [max_stock_weight, industry_limits, cap_limits]
RunOptimization(selected_stocks, columns, params) ==
    IF "Symbol" \notin Range(selected_stocks.columns)
    THEN \* line 785: KeyError, caught at line 990
         {[handler |-> 6, outcome |-> "error", rerun |-> FALSE, params |-> params,
           message |-> "str(e)"]}
    ELSE
    LET industries == Unique(ColumnValues(selected_stocks, "Industry"))
        constraints ==
            <<EqConstraint>>
            \o GroupConstraints(industries, selected_stocks, "Industry", columns,
                                "industry_limits", "industry")
            \o GroupConstraints(CapTypes, selected_stocks, "Market Cap Category", columns,
                                "cap_limits", "cap_type")
        \* the local variables the constraint lambdas read when minimize() runs
        frame == [industry_limits |-> params.industry_limits,
                  cap_limits |-> params.cap_limits,
                  industry |-> industries[Len(industries)],
                  cap_type |-> CapTypes[Len(CapTypes)]]
        \* lines 986-988: the page shows result.message
        failed == [handler |-> 6, outcome |-> "Failed", rerun |-> FALSE, params |-> params,
                   columns |-> columns, constraints |-> constraints,
                   message |-> "result.message"]
        known == \A k \in DOMAIN columns :
                    \E r \in Range(selected_stocks.rows) : r["Symbol"] = Some(columns[k])
    IN {failed} \cup
       UNION {
         IF known
         THEN {[handler |-> 6, outcome |-> "Converged", rerun |-> FALSE, params |-> params,
                columns |-> columns, constraints |-> constraints, x |-> x,
                portfolio_results |-> Append(sorted, total_row)] :
                  sorted \in SortedOrders(FilterRows(PortfolioRows(selected_stocks, columns, x)))}
         ELSE \* lines 841-845: stock_info.loc raises KeyError, caught at line 990
              {[handler |-> 6, outcome |-> "error", rerun |-> FALSE, params |-> params,
                message |-> "str(e)"]}
         : x \in {y \in [DOMAIN columns -> SolverValues] :
                    Accepts(y, params.max_stock_weight, constraints, frame)} }

\* the values the widgets of lines 669-770 can hold
OptimizationParams(selected_stocks) ==
    LET industries == Range(ColumnValues(selected_stocks, "Industry"))
    IN {[max_stock_weight |-> m, industry_limits |-> il, cap_limits |-> cl] :
          m \in MaxWeightChoices,
          il \in [industries -> LimitChoices],
          cl \in {f \in [Range(CapTypes) -> LimitChoices \cup {0}
                            \cup {market_cap_dist(selected_stocks, t) * (One \div PctScale) : t \in Range(CapTypes)}] :
                    \A t \in Range(CapTypes) : f[t] \in CapChoices(selected_stocks, t)}}

\* params is the value of the widgets, run the click on "Run Portfolio Optimization"
handle_portfolio_optimization(ss, params, run) ==
    IF "returns_data" \notin DOMAIN ss \/ "covariance_matrix" \notin DOMAIN ss
    THEN {Result(ss, [handler |-> 6, outcome |-> "warning: complete the previous step", rerun |-> FALSE])}
    ELSE IF ss.trading_days_metrics = None
    THEN \* line 647 subscripts None: TypeError, not caught
         {Result(ss, [handler |-> 6, outcome |-> "exception", rerun |-> FALSE])}
    ELSE IF ~run
    THEN {Result(ss, [handler |-> 6, outcome |-> "configuring", rerun |-> FALSE])}
    ELSE {Result(ss, pg) :
            pg \in RunOptimization(ss.selected_stocks[1], ss.returns_data[1].columns, params)}

(***************************************************************************)
(* main (src/full_app.py:994-1024): the sidebar radio stores the selected  *)
(* step, then the handler of that step runs.                               *)
(***************************************************************************)
AtStep(ss, k) == [ss EXCEPT !.step = k]

\* after st.rerun() the script runs again at once with the radio on the
\* stored step; otherwise the user may have selected any step
Navigable(k) == page.rerun => session_state.step = k

\* the run ends with one of the handler's results
Ends(results) ==
    /\ \E r \in results : session_state' = r.ss /\ page' = r.page
    /\ UNCHANGED <<args, ret>>

(***************************************************************************)
(* The files a user uploads in the session under analysis.                 *)
(***************************************************************************)
UploadColumns ==
    <<"Stock", "NSE Code", "BSE Code", "Industry", "Market Capitalization", "ROE", "PE">>
UploadNumeric == {"Market Capitalization", "ROE", "PE"}

UploadRow(stock, nse, bse, industry, cap, roe, pe) ==
    ("Stock" :> Some(stock)) @@ ("NSE Code" :> nse) @@ ("BSE Code" :> bse)
    @@ ("Industry" :> Some(industry)) @@ ("Market Capitalization" :> cap)
    @@ ("ROE" :> roe) @@ ("PE" :> pe)

UploadTable(rows) == [columns |-> UploadColumns, numeric |-> UploadNumeric, rows |-> rows]

\* four valid rows and one row that cleaning removes
UploadA == UploadTable(<<
    UploadRow("Tata Consultancy", Some("TCS"), NaN, "IT", Num(100000), Num(40), Num(30)),
    UploadRow("HDFC Bank", Some("HDFCBANK"), Some("500180"), "Bank", Num(20000), Num(30), Num(20)),
    UploadRow("Loss Maker", Some("LOSS"), NaN, "IT", Num(2000), Num(-5), Num(10)),
    UploadRow("Mid Software", NaN, Some("532000"), "IT", Num(50000), Num(20), Num(20)),
    UploadRow("Village Bank", Some("VBANK"), NaN, "Bank", NaN, Num(10), Num(40)) >>)

\* a file whose rows are all removed by cleaning
UploadZ == UploadTable(<<
    UploadRow("Loss Maker", Some("LOSS"), NaN, "IT", Num(2000), Num(-5), Num(10)),
    UploadRow("No Data", Some("NODATA"), NaN, "Bank", Num(3000), Num(10), NaN) >>)

\* a second valid file
UploadB == UploadTable(<<
    UploadRow("Infosys", Some("INFY"), NaN, "IT", Num(90000), Num(25), Num(25)),
    UploadRow("State Bank", Some("SBIN"), NaN, "Bank", Num(20000), Num(15), Num(10)) >>)

Uploads == {UploadA, UploadB, UploadZ}

(***************************************************************************)
(* Specification Spec: one user session.  Each action is one script run.   *)
(***************************************************************************)
\* the widget values tried for the normalization step: no column, the first
\* numeric column, or all of them with the last one marked lower-is-better
NormalizeChoices(df) ==
    LET nc == numeric_columns(df)
    IN {[columns |-> <<>>, invert |-> {}],
        [columns |-> SubSeq(nc, 1, 1), invert |-> {}],
        [columns |-> nc, invert |-> {nc[Len(nc)]}]}

\* the values tried for one weight input, in tenths of a percent
WeightChoices == {300, 700, 1000}

\* the values tried for the percentile slider
PercentileChoices == {50, 100}

\* what yf.download can do for one symbol
FetchOutcomes == {"data", "empty", "raise"}

\* the behaviours of the price provider tried in a session: it serves every
\* symbol, or fails for exactly one of them, or has no data at all
SessionFetches(symbols) ==
    {f \in [symbols -> FetchOutcomes] :
        \/ Cardinality({y \in symbols : f[y] # "data"}) <= 1
        \/ \A y \in symbols : f[y] = "empty"}

\* the widget values tried for the optimization step in a session: every
\* limit at its largest value, or every limit at its smallest choice
SessionParams(selected_stocks) ==
    LET ps == OptimizationParams(selected_stocks)
    IN {q \in ps : \A o \in ps :
            /\ o.max_stock_weight <= q.max_stock_weight
            /\ \A g \in DOMAIN q.industry_limits : o.industry_limits[g] <= q.industry_limits[g]
            /\ \A t \in DOMAIN q.cap_limits : o.cap_limits[t] <= q.cap_limits[t]}
       \cup
       {q \in ps : \A o \in ps :
            /\ o.max_stock_weight >= q.max_stock_weight
            /\ \A g \in DOMAIN q.industry_limits : o.industry_limits[g] >= q.industry_limits[g]
            /\ \A t \in DOMAIN q.cap_limits : o.cap_limits[t] >= q.cap_limits[t]}

\* the symbols a run of the returns analysis asks the price provider for
SymbolsOf(ss) ==
    IF ss.selected_stocks = None THEN {}
    ELSE {get_stock_symbol(r)[1] : r \in Range(ss.selected_stocks[1].rows)}

\* the possible results of one script run with the sidebar on step k, from
\* the session state ss, over the widget values and clicks tried
Runs(ss, k) ==
    CASE k = 1 ->
        UNION {handle_data_import(AtStep(ss, 1), uploaded_file, proceed) :
                 uploaded_file \in {None} \cup {Some(u) : u \in Uploads}, proceed \in BOOLEAN}
      [] k = 2 ->
        IF ss.cleaned_data = None
        THEN handle_normalization(AtStep(ss, 2), <<>>, {}, "none")
        ELSE UNION {handle_normalization(AtStep(ss, 2), ch.columns, ch.invert, click) :
                      ch \in NormalizeChoices(ss.cleaned_data[1]),
                      click \in {"none", "apply", "proceed"}}
      [] k = 3 ->
        IF ~ss.normalization_completed
        THEN handle_composite_score(AtStep(ss, 3), EmptyDict, "none")
        ELSE UNION {handle_composite_score(AtStep(ss, 3), weights, click) :
                      weights \in [Range(ss.normalized_columns[1]) -> WeightChoices],
                      click \in {"none", "calculate", "proceed"}}
      [] k = 4 ->
        UNION {handle_stock_selection(AtStep(ss, 4), percentile_threshold, proceed) :
                 percentile_threshold \in PercentileChoices, proceed \in BOOLEAN}
      [] k = 5 ->
        UNION {handle_returns_analysis(AtStep(ss, 5), fetch, proceed) :
                 fetch \in SessionFetches(SymbolsOf(ss)), proceed \in BOOLEAN}
      [] k = 6 ->
        IF ss.returns_data = None
        THEN handle_portfolio_optimization(AtStep(ss, 6), EmptyDict, FALSE)
        ELSE UNION {handle_portfolio_optimization(AtStep(ss, 6), params, run) :
                      params \in SessionParams(ss.selected_stocks[1]), run \in BOOLEAN}

Init ==
    /\ session_state = InitialSessionState
    /\ page = NoPage
    /\ args = EmptyCleanInput
    /\ ret = NotCalled

DataImport == Navigable(1) /\ Ends(Runs(session_state, 1))

Normalization == Navigable(2) /\ Ends(Runs(session_state, 2))

CompositeScore == Navigable(3) /\ Ends(Runs(session_state, 3))

StockSelection == Navigable(4) /\ Ends(Runs(session_state, 4))

ReturnsAnalysis == Navigable(5) /\ Ends(Runs(session_state, 5))

PortfolioOptimization == Navigable(6) /\ Ends(Runs(session_state, 6))

Next ==
    \/ DataImport
    \/ Normalization
    \/ CompositeScore
    \/ StockSelection
    \/ ReturnsAnalysis
    \/ PortfolioOptimization

Spec == Init /\ [][Next]_vars

(***************************************************************************)
(* Properties of a session, checked under Spec.                            *)
(***************************************************************************)
\* the message of the gates at lines 216, 280, 352, 466 and 636
PreviousStepWarning == "warning: complete the previous step"

\* stage k-1 has not stored the output stage k reads
PredecessorUnset(ss, k) ==
    CASE k = 2 -> ss.cleaned_data = None
      [] k = 3 -> ~ss.normalization_completed
      [] k = 4 -> ss.ranked_data = None
      [] k = 5 -> ss.selected_stocks = None
      [] k = 6 -> ss.returns_data = None \/ ss.covariance_matrix = None

\* C1: stage gating.  Whenever the handler of stage k (k = 2..6) has run in
\* a session where stage k-1 has not stored its output, the run showed the
\* "complete the previous step" warning and returned without doing anything
\* else.  (No handler writes the key its own gate reads, so the key is unset
\* after the run exactly when it was unset before it.)
C1_StageGating ==
    \A k \in 2..6 :
        (page.handler = k /\ PredecessorUnset(session_state, k))
            => page.outcome = PreviousStepWarning

\* the stored results of the stages after stage j are cleared in ss
DownstreamCleared(ss, j) ==
    /\ j < 2 => /\ ss.normalized_data = None
                /\ ss.normalized_columns = None
                /\ ~ss.normalization_completed
    /\ j < 3 => ss.ranked_data = None
    /\ j < 4 => ss.selected_stocks = None
    /\ j < 5 => /\ ss.returns_data = None
                /\ ss.closing_prices = None
                /\ ss.covariance_matrix = None
                /\ ss.trading_days_metrics = None

\* the run that produced page pg stored a new output of stage j
StoredOutput(pg, j) ==
    /\ pg.handler = j
    /\ \/ j = 1 /\ pg.outcome = "cleaned"
       \/ j = 2 /\ pg.outcome = "normalized"
       \/ j = 3 /\ pg.outcome = "ranked"
       \/ j = 4 /\ pg.outcome = "selected" /\ pg.rerun
       \/ j = 5 /\ pg.outcome = "analysed"

\* C6: re-entering an earlier stage invalidates all downstream results.  In
\* every step in which stage j (j = 1..5) stores a new output, the stored
\* result of every stage after j is cleared.
C6_DownstreamInvalidated ==
    [][\A j \in 1..5 : StoredOutput(page', j) => DownstreamCleared(session_state', j)]_vars

\* C7: no stage mutates a predecessor's output in place.  A run of stage 3
\* leaves the stored normalized table as it was, and a run of stage 5 leaves
\* the stored selected-asset table as it was.
C7_NoInPlaceMutation ==
    [][/\ page'.handler = 3 => session_state'.normalized_data = session_state.normalized_data
       /\ page'.handler = 5 => session_state'.selected_stocks = session_state.selected_stocks]_vars

\* a stage refuses to operate: it shows the gate's warning, or it stops with
\* an uncaught exception before doing any work
Refused(pg) == pg.outcome \in {PreviousStepWarning, "exception"}

\* C8: a cleaning run that leaves zero rows blocks the downstream stages.
\* Right after such a run, whatever stage the user opens next and whatever
\* they enter there, the Normalizer and every later stage refuse to operate,
\* also when an earlier upload of the session had been cleaned successfully.
C8_ZeroRowsBlocks ==
    (page.handler = 1 /\ page.outcome = "error: no data remains")
        => \A k \in 2..6 : \A r \in Runs(session_state, k) : Refused(r.page)

(***************************************************************************)
(* Specification SpecOpt: the optimization step, run with every value of   *)
(* its widgets on sessions that have completed stages 1 to 5.              *)
(***************************************************************************)
\* market capitalizations of a Large-Cap and of a Small-Cap company
OptCaps == {100000, 20000}
OptIndustries == {"IT", "Bank"}

\* files of four valid rows, in descending order of ROE; the size of the
\* first two companies and the industry of the second and the third vary
OptUploads ==
    {UploadTable(<<
        UploadRow("First", Some("FIRST"), NaN, "IT", Num(c1), Num(40), Num(30)),
        UploadRow("Second", Some("SECOND"), NaN, i2, Num(c2), Num(30), Num(20)),
        UploadRow("Third", NaN, Some("500003"), i3, Num(20000), Num(20), Num(20)),
        UploadRow("Fourth", Some("FOURTH"), NaN, "Bank", Num(50000), Num(10), Num(40)) >>) :
      c1 \in OptCaps, i2 \in OptIndustries, c2 \in OptCaps, i3 \in OptIndustries}

\* the provider serves every symbol, or all but one
OptFetches(symbols) ==
    {f \in [symbols -> {"data", "empty"}] : Cardinality({y \in symbols : f[y] # "data"}) <= 1}

\* the session states after the runs of stages 1 to 5 on upload u: ROE is
\* normalized and has the whole weight, the slider is at its minimum of 1
SessionsAfterStage(u, k) ==
    LET F[j \in 1..5] ==
          IF j = 1
          THEN {r.ss : r \in handle_data_import(AtStep(InitialSessionState, 1), Some(u), TRUE)}
          ELSE UNION {
                 CASE j = 2 -> {r.ss : r \in handle_normalization(
                                                AtStep(ss, 2), <<"ROE">>, {}, "apply")}
                   [] j = 3 -> {r.ss : r \in handle_composite_score(
                                                AtStep(ss, 3), [c \in {"ROE"} |-> WeightScale],
                                                "calculate")}
                   [] j = 4 -> {r.ss : r \in handle_stock_selection(AtStep(ss, 4), 1, TRUE)}
                   [] j = 5 -> {r.ss : r \in {q \in UNION {handle_returns_analysis(
                                                              AtStep(ss, 5), fetch, TRUE) :
                                                            fetch \in OptFetches(SymbolsOf(ss))} :
                                                q.page.outcome = "analysed"}}
                 : ss \in F[j - 1]}
    IN F[k]

InitOpt ==
    /\ session_state \in UNION {SessionsAfterStage(u, 5) : u \in OptUploads}
    /\ page = NoPage
    /\ args = EmptyCleanInput
    /\ ret = NotCalled

Optimize ==
    /\ Navigable(6)
    /\ \E params \in OptimizationParams(session_state.selected_stocks[1]), run \in BOOLEAN :
          Ends(handle_portfolio_optimization(AtStep(session_state, 6), params, run))

NextOpt == Optimize

SpecOpt == InitOpt /\ [][NextOpt]_vars

(***************************************************************************)
(* Properties of the optimization step, checked under SpecOpt.             *)
(***************************************************************************)
\* the run of stage 6 shown on the page was accepted by the solver
Converged == page.handler = 6 /\ page.outcome = "Converged"

\* the positions in result.x of the stocks whose column col holds value
MembersOf(col, value) ==
    PositionsIn(page.columns, SymbolsWhere(session_state.selected_stocks[1], col, value))

\* C2: each bucket-group constraint bounds its bucket by that same bucket's
\* cap.  In every accepted (Converged) solution, the weights of the stocks of
\* each market-cap bucket sum to at most the cap entered for that bucket.
C2_BucketOwnCap ==
    Converged =>
        \A k \in DOMAIN CapTypes :
            SumAt(page.x, MembersOf("Market Cap Category", CapTypes[k]))
                <= page.params.cap_limits[CapTypes[k]]

\* C3: each industry-group constraint bounds its industry by that same
\* industry's cap.  In every accepted solution, the weights of the stocks of
\* each industry sum to at most the limit entered for that industry.
C3_IndustryOwnCap ==
    Converged =>
        \A g \in DOMAIN page.params.industry_limits :
            SumAt(page.x, MembersOf("Industry", g)) <= page.params.industry_limits[g]

\* the per-asset rows of the final portfolio table (the Total row excluded)
AssetRows == SubSeq(page.portfolio_results, 1, Len(page.portfolio_results) - 1)

\* C4: after a Converged run, the per-asset weights of the final portfolio
\* table sum to exactly 100.00.
C4_TableSumsTo100 ==
    Converged => SumSeq([i \in DOMAIN AssetRows |-> AssetRows[i].Weight]) = PctScale

\* C5: after a Converged run, every weight of the final portfolio table lies
\* between 0 and the maximum weight per stock.
C5_WeightsWithinBox ==
    Converged =>
        \A i \in DOMAIN AssetRows :
            /\ AssetRows[i].Weight >= 0
            /\ AssetRows[i].Weight * (One \div PctScale) <= page.params.max_stock_weight

(***************************************************************************)
(* Specification SpecSelect: the scoring and the selection steps on        *)
(* sessions whose tables hold tied scores and market capitalizations at,   *)
(* next to and outside the thresholds of the categories.                   *)
(***************************************************************************)
\* the ROE of the four companies: a tie in the middle, a constant column,
\* two ties, no tie
SelectROEs == {<<40, 30, 30, 10>>, <<30, 30, 30, 30>>, <<40, 40, 20, 20>>, <<40, 30, 20, 10>>}

\* Market Capitalization is not cleaned, so the first company's may be
\* missing or negative; the next two are at a threshold or 0.01 above it
SelectUploads ==
    {UploadTable(<<
        UploadRow("First", Some("FIRST"), NaN, "IT", c1, Num(roe[1]), Num(20)),
        UploadRow("Second", Some("SECOND"), NaN, "Bank", Some(Rat(c2, 100)), Num(roe[2]), Num(20)),
        UploadRow("Third", NaN, Some("500003"), "IT", Some(Rat(c3, 100)), Num(roe[3]), Num(20)),
        UploadRow("Fourth", Some("FOURTH"), NaN, "Bank", Num(100000), Num(roe[4]), Num(20)) >>) :
      roe \in SelectROEs, c1 \in {NaN, Num(-5)},
      c2 \in {SmallCapLimitCents, SmallCapLimitCents + 1},
      c3 \in {MidCapLimitCents, MidCapLimitCents + 1}}

\* the values tried for the ROE weight (tenths of a percent) and for the slider
SelectWeights == {700, 1000}
SelectPercentiles == {1, 50, 60, 100}

InitSelect ==
    /\ session_state \in UNION {SessionsAfterStage(u, 2) : u \in SelectUploads}
    /\ page = NoPage
    /\ args = EmptyCleanInput
    /\ ret = NotCalled

ScoreStep ==
    /\ Navigable(3)
    /\ \E w \in SelectWeights, click \in {"calculate", "proceed"} :
          Ends(handle_composite_score(AtStep(session_state, 3), [c \in {"ROE"} |-> w], click))

SelectStep ==
    /\ Navigable(4)
    /\ \E percentile_threshold \in SelectPercentiles, proceed \in BOOLEAN :
          Ends(handle_stock_selection(AtStep(session_state, 4), percentile_threshold, proceed))

NextSelect == ScoreStep \/ SelectStep

SpecSelect == InitSelect /\ [][NextSelect]_vars

(***************************************************************************)
(* Properties of ranking and selection, checked under SpecSelect.          *)
(***************************************************************************)
\* the rows of the stored ranked table, and a row's score and rank
RankedRows == session_state.ranked_data[1].rows
ScoreOf(r) == r["Composite Score"][1]
RankOf(r) == r["Rank"][1]

\* C12: Rank uses standard competition ranking.  Every row of the ranked
\* table has rank 1 + the number of rows with a strictly greater score, so
\* tied rows all have the position of the first of them.
C12_CompetitionRank ==
    session_state.ranked_data # None =>
        \A i \in DOMAIN RankedRows :
            RankOf(RankedRows[i])
                = RatInt(1 + Cardinality({j \in DOMAIN RankedRows :
                                            RatLess(ScoreOf(RankedRows[i]), ScoreOf(RankedRows[j]))}))

\* C20: Rank is order-consistent with score.  For every pair of rows of the
\* ranked table, a greater score has a smaller rank and equal scores have
\* equal ranks, and the table is stored in descending order of score.
C20_RankOrderConsistent ==
    session_state.ranked_data # None =>
        /\ \A i, j \in DOMAIN RankedRows :
            /\ RatLess(ScoreOf(RankedRows[j]), ScoreOf(RankedRows[i]))
                  => RatLess(RankOf(RankedRows[i]), RankOf(RankedRows[j]))
            /\ ScoreOf(RankedRows[i]) = ScoreOf(RankedRows[j])
                  => RankOf(RankedRows[i]) = RankOf(RankedRows[j])
        /\ \A i, j \in DOMAIN RankedRows :
            i < j => RatLeq(ScoreOf(RankedRows[j]), ScoreOf(RankedRows[i]))

\* a ranked table of four rows is stored in which the second and the third
\* row are tied, below the first and above the fourth
C20_Witness ==
    /\ session_state.ranked_data # None
    /\ Len(RankedRows) = 4
    /\ RatLess(ScoreOf(RankedRows[2]), ScoreOf(RankedRows[1]))
    /\ ScoreOf(RankedRows[2]) = ScoreOf(RankedRows[3])
    /\ RatLess(ScoreOf(RankedRows[4]), ScoreOf(RankedRows[3]))
    /\ RankOf(RankedRows[2]) = RankOf(RankedRows[3])

\* the run of stage 4 shown on the page computed a selection
Selected == page.handler = 4 /\ page.outcome = "selected"

\* C13: market-cap bucket assignment is a total, non-overlapping partition.
\* Every selected asset has one of the three buckets: Small-Cap up to
\* 29182.71, Mid-Cap above it up to 89123.03, Large-Cap above that, whatever
\* its Market Capitalization is.
C13_TotalPartition ==
    Selected =>
        \A i \in DOMAIN page.df_selected.rows :
            LET r == page.df_selected.rows[i]
                cap == r["Market Capitalization"]
                bucket == r["Market Cap Category"][1]
            IN /\ bucket \in {"Small-Cap", "Mid-Cap", "Large-Cap"}
               /\ cap # NaN =>
                    /\ bucket = "Small-Cap" <=> RatLeq(cap[1], Rat(2918271, 100))
                    /\ bucket = "Large-Cap" <=> RatLess(Rat(8912303, 100), cap[1])

\* the linearly interpolated percentile p of a table's scores: with the
\* scores in ascending order s[1..n] and h = (n - 1) * p / 100, the value
\* s[1 + floor(h)] plus the fractional part of h times the step to the next one
InterpolatedCutoff(rows, p) ==
    LET n == Len(rows)
        asc == CHOOSE q \in Permutations(1..n) :
                  \A i, j \in 1..n : i < j => RatLeq(ScoreOf(rows[q[i]]), ScoreOf(rows[q[j]]))
        whole == ((n - 1) * p) \div 100
        part == ((n - 1) * p) % 100
    IN IF part = 0 THEN ScoreOf(rows[asc[whole + 1]])
       ELSE RatAdd(ScoreOf(rows[asc[whole + 1]]),
                   RatMul(Rat(part, 100),
                          RatSub(ScoreOf(rows[asc[whole + 2]]), ScoreOf(rows[asc[whole + 1]]))))

\* C14: the Selector's output is exactly the ranked rows whose score is
\* strictly greater than the linearly interpolated percentile-p cutoff, in
\* the order of the ranked table; rows equal to the cutoff are excluded,
\* and at p = 100 the selection is empty.
C14_StrictlyAboveCutoff ==
    Selected =>
        LET cutoff == InterpolatedCutoff(RankedRows, page.percentile_threshold)
            expected == SelectSeq(RankedRows, LAMBDA r : RatLess(cutoff, ScoreOf(r)))
        IN /\ Len(page.df_selected.rows) = Len(expected)
           /\ \A i \in DOMAIN expected :
                \A c \in DOMAIN expected[i] : page.df_selected.rows[i][c] = expected[i][c]
           /\ page.percentile_threshold = 100 => page.df_selected.rows = <<>>

\* a selection at p = 50 on four rows whose two middle scores are tied: the
\* cutoff is the tied score, both tied rows are excluded and only the first
\* row is selected
C14_Witness ==
    /\ Selected
    /\ page.percentile_threshold = 50
    /\ Len(RankedRows) = 4
    /\ ScoreOf(RankedRows[2]) = ScoreOf(RankedRows[3])
    /\ RatLess(ScoreOf(RankedRows[2]), ScoreOf(RankedRows[1]))
    /\ InterpolatedCutoff(RankedRows, 50) = ScoreOf(RankedRows[2])
    /\ Len(page.df_selected.rows) = 1
    /\ page.df_selected.rows[1]["Stock"] = RankedRows[1]["Stock"]

(***************************************************************************)
(* Properties of the returns analysis, checked under Spec.                 *)
(***************************************************************************)
\* the run of stage 5 shown on the page went through the fetch loop
Fetched == page.handler = 5 /\ page.outcome # "exception"

\* the symbols whose download raised or returned no data in that run
FailedFetches == {y \in DOMAIN page.fetch : page.fetch[y] # "data"}

\* C15: per-asset fetch failure is recovered locally.  After a run of the
\* returns analysis, a warning names exactly the assets whose fetch raised or
\* returned no data; and when at least one asset succeeded the analysis
\* completed and the stored return series has one column for each asset
\* that succeeded and none for the failed ones.
C15_FetchRecoveredLocally ==
    Fetched =>
        /\ page.warnings = FailedFetches
        /\ FailedFetches # DOMAIN page.fetch =>
            /\ page.outcome = "analysed"
            /\ Range(session_state.returns_data[1].columns) = (DOMAIN page.fetch) \ FailedFetches

(***************************************************************************)
(* Properties of the optimizer's outcome, checked under Spec.              *)
(***************************************************************************)
\* "Run Portfolio Optimization" was clicked in the run shown on the page
Solving == page.handler = 6 /\ "params" \in DOMAIN page

\* C16: optimizer outcome.  Every run that enters Solving ends Converged,
\* with the weights table, or Failed (the solver reports no success, or the
\* solve raises and the exception is caught), with the message shown and no
\* weights and no table; the run does not end in an uncaught exception.
C16_OptimizerOutcome ==
    Solving =>
        /\ page.outcome \in {"Converged", "Failed", "error"}
        /\ page.outcome = "Converged" => "portfolio_results" \in DOMAIN page
        /\ page.outcome # "Converged" =>
            /\ "message" \in DOMAIN page
            /\ "x" \notin DOMAIN page
            /\ "portfolio_results" \notin DOMAIN page

\* a solve that did not succeed: the page shows the solver's message only
C16_Witness ==
    /\ Solving
    /\ page.outcome = "Failed"
    /\ page.message = "result.message"
    /\ Len(page.constraints) >= 2
    /\ "portfolio_results" \notin DOMAIN page

(***************************************************************************)
(* Properties of the configuration errors, checked under Spec.             *)
(***************************************************************************)
\* C17: a configuration error blocks only the action that triggered it.  A
\* run of stage 3 that ends with the total-weight error leaves ranked_data,
\* weights and normalized_data as they were, and a run of stage 2 with no
\* column selected leaves normalized_data, normalized_columns and
\* normalization_completed as they were.
C17_ConfigurationErrorKeepsState ==
    [][/\ (page'.handler = 3 /\ page'.outcome = "error: total weight") =>
            /\ session_state'.ranked_data = session_state.ranked_data
            /\ session_state'.weights = session_state.weights
            /\ session_state'.normalized_data = session_state.normalized_data
       /\ (page'.handler = 2 /\ page'.outcome = "warning: select a column") =>
            /\ session_state'.normalized_data = session_state.normalized_data
            /\ session_state'.normalized_columns = session_state.normalized_columns
            /\ session_state'.normalization_completed = session_state.normalization_completed]_vars

\* the total-weight error is shown in a session that holds a ranking
\* computed earlier with other weights
C17_Witness ==
    /\ page.handler = 3
    /\ page.outcome = "error: total weight"
    /\ session_state.ranked_data # None
    /\ session_state.weights # EmptyDict
    /\ "Rank" \in Range(session_state.normalized_data[1].columns)

(***************************************************************************)
(* Specification SpecNorm: normalize_data applied to every small table of  *)
(* cleaned metric values, with every choice of the columns to invert.      *)
(***************************************************************************)
NormColumns == <<"Stock", "ROE", "PE">>
NormNumeric == {"ROE", "PE"}

\* the rows of a cleaned table: metric values are present and not negative
NormInputRows ==
    { ("Stock" :> Some("S")) @@ ("ROE" :> Num(roe)) @@ ("PE" :> Num(pe)) :
        roe \in {1, 2, 5}, pe \in {0, 4} }

EmptyNormInput == [columns |-> NormColumns, numeric |-> NormNumeric, rows |-> <<>>]

InitNorm ==
    /\ args = EmptyNormInput
    /\ ret = NotCalled
    /\ session_state = InitialSessionState
    /\ page = NoPage

AppendMetricRow ==
    /\ Len(args.rows) < MaxRows
    /\ \E r \in NormInputRows : args' = [args EXCEPT !.rows = Append(@, r)]
    /\ ret' = NotCalled
    /\ UNCHANGED <<session_state, page>>

\* the call of line 242; a stored cleaned table has at least one row (line 198)
CallNormalizeData ==
    /\ ret = NotCalled
    /\ args.rows # <<>>
    /\ \E columns_to_normalize \in {<<"ROE">>, <<"PE">>, <<"ROE", "PE">>} :
         \E columns_to_invert \in SUBSET Range(columns_to_normalize) :
            ret' = Some([columns_to_normalize |-> columns_to_normalize,
                         columns_to_invert |-> columns_to_invert,
                         df_normalized |-> normalize_data(args, columns_to_normalize,
                                                          columns_to_invert)])
    /\ UNCHANGED <<args, session_state, page>>

NextNorm == AppendMetricRow \/ CallNormalizeData

SpecNorm == InitNorm /\ [][NextNorm]_vars

(***************************************************************************)
(* Properties of normalize_data, checked under SpecNorm.                   *)
(***************************************************************************)
\* v is the least (greatest) input value of column c
IsColumnMin(c, v) ==
    /\ \E i \in DOMAIN args.rows : args.rows[i][c][1] = v
    /\ \A i \in DOMAIN args.rows : RatLeq(v, args.rows[i][c][1])
IsColumnMax(c, v) ==
    /\ \E i \in DOMAIN args.rows : args.rows[i][c][1] = v
    /\ \A i \in DOMAIN args.rows : RatLeq(args.rows[i][c][1], v)

ScoreInputRows ==
    { ("Stock" :> Some("S")) @@ ("ROE" :> Some(roe)) @@ ("PE" :> Some(pe)) :
        roe \in {RatInt(0), Rat(1, 2), RatInt(1)}, pe \in {RatInt(0), Rat(1, 2), RatInt(1)} }

\* the values of one weight input, in tenths of a percent
ScoreWeights == {0, 300, 700, 1000}

InitScore ==
    /\ args = EmptyNormInput
    /\ ret = NotCalled
    /\ session_state = InitialSessionState
    /\ page = NoPage

AppendScoreRow ==
    /\ Len(args.rows) < MaxRows
    /\ \E r \in ScoreInputRows : args' = [args EXCEPT !.rows = Append(@, r)]
    /\ ret' = NotCalled
    /\ UNCHANGED <<session_state, page>>

\* the call of line 317
CallCalculateCompositeScore ==
    /\ ret = NotCalled
    /\ args.rows # <<>>
    /\ \E weights \in [{"ROE", "PE"} -> ScoreWeights] :
          ret' = Some([weights |-> weights,
                       scores |-> calculate_composite_score(args, <<"ROE", "PE">>, weights)])
    /\ UNCHANGED <<args, session_state, page>>

NextScore == AppendScoreRow \/ CallCalculateCompositeScore

SpecScore == InitScore /\ [][NextScore]_vars

(***************************************************************************)
(* Properties of calculate_composite_score, checked under SpecScore.       *)
(***************************************************************************)
\* C19: calculate_composite_score performs no implicit normalization of the
\* weights.  For every row the score is the sum over the columns of
\* (weight / 100) x value, whatever the weights sum to; weights 70 and 30 on
\* values 0.5 and 1.0 give 0.65; and with weights summing to 100 on values in
\* [0,1] the score lies in [0,1].
C19_WeightedSum ==
    ret # NotCalled =>
        \A i \in DOMAIN args.rows :
            LET roe == args.rows[i]["ROE"][1]
                pe == args.rows[i]["PE"][1]
                w == ret[1].weights
                score == ret[1].scores[i]
            IN /\ RatMul(score, RatInt(1000))
                    = RatAdd(RatMul(RatInt(w["ROE"]), roe), RatMul(RatInt(w["PE"]), pe))
               /\ (w["ROE"] = 700 /\ w["PE"] = 300 /\ roe = Rat(1, 2) /\ pe = RatInt(1))
                    => score = Rat(65, 100)
               /\ w["ROE"] + w["PE"] = 1000
                    => RatLeq(RatInt(0), score) /\ RatLeq(score, RatInt(1))

\* weights 70 and 30 applied to a table whose first row has the values 0.5
\* and 1.0 (score 0.65) and whose second row has the values 1 and 1 (score 1)
C19_Witness ==
    /\ ret # NotCalled
    /\ ret[1].weights = [c \in {"ROE", "PE"} |-> IF c = "ROE" THEN 700 ELSE 300]
    /\ Len(args.rows) = 2
    /\ args.rows[1]["ROE"] = Some(Rat(1, 2)) /\ args.rows[1]["PE"] = Some(RatInt(1))
    /\ args.rows[2]["ROE"] = Some(RatInt(1)) /\ args.rows[2]["PE"] = Some(RatInt(1))
    /\ ret[1].scores = <<Rat(13, 20), RatInt(1)>>

(***************************************************************************)
(* Properties of the group constraints, checked under SpecOpt.             *)
(***************************************************************************)
\* the solver was called in the run shown on the page
SolverCalled == page.handler = 6 /\ "constraints" \in DOMAIN page

\* the column positions of the assets of each group of the sequence groups
\* that has at least one return-series column, in the order of groups
OwnPositions(col, groups) ==
    SelectSeq([k \in DOMAIN groups |-> MembersOf(col, groups[k])], LAMBDA idx : idx # <<>>)

\* the industries of the selected stocks in order of first appearance
SelectedIndustries ==
    LET rows == session_state.selected_stocks[1].rows
        firsts == SelectSeq([i \in DOMAIN rows |-> i],
                            LAMBDA i : \A j \in 1..(i - 1) : rows[j]["Industry"] # rows[i]["Industry"])
    IN [k \in DOMAIN firsts |-> rows[firsts[k]]["Industry"][1]]

\* C21: each group constraint captures its index list by value.  The
\* inequality constraints handed to the solver are, in order, one for each
\* industry and then one for each market-cap bucket that has a return-series
\* column; each sums exactly the column positions of its own group's assets,
\* and a group without a column yields no constraint.  At an accepted
\* solution the value of each function is therefore a limit between 0 and 1
\* minus the sum of the weights of its own group.
C21_IndexCapturedByValue ==
    SolverCalled =>
        LET own == OwnPositions("Industry", SelectedIndustries)
                     \o OwnPositions("Market Cap Category", <<"Large-Cap", "Mid-Cap", "Small-Cap">>)
            ineq == Tail(page.constraints)
        IN /\ page.constraints[1].type = "eq"
           /\ Len(ineq) = Len(own)
           /\ \A k \in DOMAIN ineq :
                /\ ineq[k].type = "ineq"
                /\ ineq[k].idx = own[k]
                /\ Converged =>
                     ConstraintFun(ineq[k], page.x,
                                   [industry_limits |-> page.params.industry_limits,
                                    cap_limits |-> page.params.cap_limits,
                                    industry |-> SelectedIndustries[Len(SelectedIndustries)],
                                    cap_type |-> "Small-Cap"])
                         + SumAt(page.x, own[k]) \in 0..One

\* an accepted solve on two columns, the first of an IT company and the
\* second of a Bank company, where a third selected company (IT) has no
\* column: the industry constraints sum positions <<1>> and <<2>>
C21_Witness ==
    /\ Converged
    /\ Len(page.columns) = 2
    /\ Len(session_state.selected_stocks[1].rows) = 3
    /\ SelectedIndustries = <<"IT", "Bank">>
    /\ page.constraints[2].idx = <<1>>
    /\ page.constraints[3].idx = <<2>>
    /\ MembersOf("Industry", "IT") = <<1>>
    /\ page.x[1] # page.x[2]

(***************************************************************************)
(* Properties of normalize_data on columns without spread, checked under   *)
(* SpecNorm.                                                               *)
(***************************************************************************)
\* the input (output) values of column c, one per row
InputOf(c) == [i \in DOMAIN args.rows |-> args.rows[i][c][1]]
OutputOf(c) == [i \in DOMAIN args.rows |-> ret[1].df_normalized.rows[i][c][1]]

\* all input values of column c are equal (max == min)
IsConstantColumn(c) == \A i, j \in DOMAIN args.rows : InputOf(c)[i] = InputOf(c)[j]

\* C22: a constant column (max == min) passed to normalize_data has a
\* defined result: the call returns a table in which every value of that
\* column is 0, whether or not the column is inverted, while every other
\* column is normalized as usual: a normalized column with spread by
\* (v - min)/(max - min), or (max - v)/(max - min) if inverted, and a column
\* that is not normalized is left as it was.
C22_ConstantColumnIsZero ==
    ret # NotCalled =>
        \A c \in Range(ret[1].columns_to_normalize) :
            IsConstantColumn(c) =>
                /\ Len(ret[1].df_normalized.rows) = Len(args.rows)
                /\ \A i \in DOMAIN args.rows : OutputOf(c)[i] = RatInt(0)
                /\ \A d \in NormNumeric \ {c} :
                     LET lo == MinOf(InputOf(d))
                         hi == MaxOf(InputOf(d))
                     IN \A i \in DOMAIN args.rows :
                          OutputOf(d)[i] =
                             IF d \notin Range(ret[1].columns_to_normalize) THEN InputOf(d)[i]
                             ELSE IF hi = lo THEN RatInt(0)
                             ELSE IF d \in ret[1].columns_to_invert
                                  THEN RatDiv(RatSub(hi, InputOf(d)[i]), RatSub(hi, lo))
                                  ELSE RatDiv(RatSub(InputOf(d)[i], lo), RatSub(hi, lo))

\* ROE 2, 2, 2 normalized as lower-is-better to 0, 0, 0 next to PE 0, 4, 4
\* normalized to 0, 1, 1
C22_Witness ==
    /\ ret # NotCalled
    /\ Len(args.rows) = 3
    /\ InputOf("ROE") = <<RatInt(2), RatInt(2), RatInt(2)>>
    /\ InputOf("PE") = <<RatInt(0), RatInt(4), RatInt(4)>>
    /\ ret[1].columns_to_normalize = <<"ROE", "PE">>
    /\ ret[1].columns_to_invert = {"ROE"}
    /\ OutputOf("ROE") = <<RatInt(0), RatInt(0), RatInt(0)>>
    /\ OutputOf("PE") = <<RatInt(0), RatInt(1), RatInt(1)>>

(***************************************************************************)
(* Properties of the filter and order of the portfolio table, checked      *)
(* under SpecOpt.                                                          *)
(***************************************************************************)
\* the column positions whose adjusted weight is above 0.01 %
ShownPositions ==
    {i \in DOMAIN page.columns : weights_pct(page.x)[i] > MinShownWeight}

\* C23: after rounding and residual adjustment the portfolio table holds
\* exactly the assets whose adjusted weight is above 0.01 %, each once and
\* with that weight (assets at or below 0.01 % are dropped), in
\* non-increasing order of weight, followed by a single Total row.
C23_FilterAndOrder ==
    Converged =>
        LET table == page.portfolio_results
            n == Len(table) - 1
        IN /\ n = Cardinality(ShownPositions)
           /\ \A i \in ShownPositions :
                \E k \in 1..n : /\ table[k].Ticker = page.columns[i]
                                /\ table[k].Weight = weights_pct(page.x)[i]
           /\ \A k \in 1..n :
                \E i \in ShownPositions : table[k].Ticker = page.columns[i]
           /\ \A k \in 1..(n - 1) : table[k].Weight >= table[k + 1].Weight
           /\ table[n + 1] = total_row
           /\ \A k \in 1..n : table[k].Stock # "Total"

\* a solve returning 0.9999 and 0.0001: the second asset's weight is exactly
\* 0.01 % and it is dropped, leaving one asset row of 99.99 % and the Total row
C23_Witness ==
    /\ Converged
    /\ page.x = <<99990, 10>>
    /\ weights_pct(page.x) = <<9999, 1>>
    /\ Len(page.portfolio_results) = 2
    /\ page.portfolio_results[1].Ticker = page.columns[1]
    /\ page.portfolio_results[1].Weight = 9999
    /\ page.portfolio_results[2] = total_row

====
